---- MODULE Spec2Model ----
(***************************************************************************)
(* WCT2 (src/model.py): the autoencoder graph built by build_wct_model,    *)
(* its slicing into named stages by init_transfer_sequence, the two-stream *)
(* staged forward pass of transfer, and the training loop with weight      *)
(* persistence.                                                            *)
(*                                                                         *)
(* A layer name is a tuple of string parts (name + suffix is tuple         *)
(* concatenation, "s in name" is membership of a part, replace(s, "")      *)
(* drops the part).  A tensor is symbolic, as in Keras: the postfix term   *)
(* of the layers applied to the input, with its channel count and its      *)
(* spatial size.                                                           *)
(***************************************************************************)
EXTENDS Integers, Sequences, FiniteSets, TLC

VARIABLES
    pc,            \* position of the running method
    rst,           \* self.rst
    x,             \* build_wct_model: the current tensor
    skips,         \* build_wct_model: the list of skip bundles
    id_,           \* build_wct_model: id of the next wavelet pooling
    skip_id,       \* build_wct_model: index of the next bundle to read
    i,             \* index of the running loop
    layers,        \* self.wct.layers, in the order the layers are applied
    stages,        \* the stage callables set by init_transfer_sequence
    reads,         \* the bundle indices read by the unpoolings so far
    content_img, style_img, alpha,      \* transfer: arguments
    content_feat, style_feat,           \* transfer: main-branch features
    c_skips, s_skips,                   \* transfer: c_skips_k, s_skips_k
    origin,        \* transfer: the stage each feature comes from, and its blending
    trace,         \* transfer: what each executed statement consumed
    result,        \* transfer: the returned array
    show_interval, \* self.show_interval
    data_gen,      \* train: the data generator (batches, max_size)
    epochs, e,     \* train: argument and epoch index
    hist,          \* train: the local history['loss']
    batch_loss,    \* train: batch_loss['loss'] of the running epoch
    history,       \* self.history['loss'] (<<>> until train assigns it)
    file,          \* base_dir/wct2.h5: the saved weights (<<>> if no file)
    events,        \* train: batches, saves and samples in program order
    calls          \* number of entry-point calls made so far

buildVars == <<rst, x, skips, id_, skip_id, layers, stages, reads>>
transferVars == <<content_img, style_img, alpha, content_feat, style_feat,
                  c_skips, s_skips, origin, trace, result>>
trainVars == <<show_interval, data_gen, epochs, e, hist, batch_loss, history,
               file, events, calls>>
vars == <<pc, i, buildVars, transferVars, trainVars>>

(***************************************************************************)
(* Bounds of the model.                                                    *)
(***************************************************************************)
MaxRstMult == 3        \* rst ranges over 8, 16, ..., 8 * MaxRstMult
MaxEpochs == 3         \* train is called with epochs in 0..MaxEpochs
MaxInterval == 2       \* show_interval ranges over 1..MaxInterval
MaxBatches == 2        \* next_batch() yields 1..MaxBatches batches
MaxSamples == 2        \* data_gen.max_size ranges over 1..MaxSamples
MaxCalls == 2          \* entry-point calls made on one object
MaxEarlierSteps == 1   \* training steps behind a wct2.h5 found in base_dir
MaxAlpha == 1          \* alpha ranges over 0..MaxAlpha (0 = no blend)

Range(s) == {s[k] : k \in 1..Len(s)}

(***************************************************************************)
(* Names.                                                                  *)
(***************************************************************************)
VGG_LAYERS == <<"block1_conv1", "block1_conv2",
                "block2_conv1", "block2_conv2",
                "block3_conv1", "block3_conv2",
                "block3_conv3", "block3_conv4",
                "block4_conv1">>

\* origin_layer.name + name
Concat(layer, suffix) == <<layer, suffix>>

\* str(n) of an integer, one part per character: the sign, then the decimal digits
Digit(d) == <<"0", "1", "2", "3", "4", "5", "6", "7", "8", "9">>[d + 1]

RECURSIVE Digits(_)
Digits(n) == IF n < 10 THEN <<Digit(n)>> ELSE Append(Digits(n \div 10), Digit(n % 10))

Str(n) == IF n < 0 THEN <<"-">> \o Digits(-n) ELSE Digits(n)

\* 'wave_let_pooling_{}'.format(id_), 'wave_let_unpooling_{}'.format(skip_id)
Format(prefix, n) == <<prefix>> \o Str(n)

\* "_encode" in layer.name
Contains(name, part) == part \in Range(name)

\* layer.name.replace("_encode", "")
Replace(name, part) == SelectSeq(name, LAMBDA p : p # part)

(***************************************************************************)
(* The backbone (keras.applications VGG19, imagenet weights): the channel  *)
(* count of each convolution and an identifier of its weights.             *)
(***************************************************************************)
VggOutputShape(layer) ==
    CASE layer \in {"block1_conv1", "block1_conv2"} -> 64
      [] layer \in {"block2_conv1", "block2_conv2"} -> 128
      [] layer \in {"block3_conv1", "block3_conv2",
                    "block3_conv3", "block3_conv4"} -> 256
      [] layer = "block4_conv1" -> 512

VggGetWeights(name) ==
    IF Len(name) = 1 /\ name[1] \in Range(VGG_LAYERS)
    THEN 100 + (CHOOSE k \in 1..Len(VGG_LAYERS) : VGG_LAYERS[k] = name[1])
    ELSE -1

RandomInit == 0        \* identifier of a layer's freshly initialised weights

(***************************************************************************)
(* Tensors and layers.                                                     *)
(***************************************************************************)
Tensor(term, ch, size) == [term |-> term, ch |-> ch, size |-> size]

NoTensor == Tensor(<<>>, 0, 0)

LayerRec(name, kind, in, out, skip) ==
    [name |-> name, kind |-> kind, trainable |-> TRUE, weights |-> RandomInit,
     in_ch |-> in.ch, in_size |-> in.size,
     out_ch |-> out.ch, out_size |-> out.size, skip |-> skip]

\* Input(self.img_shape, name='in_img')
InputImg(r) == Tensor(<< <<"in_img">> >>, 3, r)

InputLayer(r) == LayerRec(<<"in_img">>, "input", InputImg(r), InputImg(r), -1)

\* Conv2D(filters, strides=1, padding='same', name=name)(x)
conv_block(t, filters, name) == Tensor(Append(t.term, name), filters, t.size)

\* filters = origin_layer.output_shape[-1]; name = origin_layer.name + name
copy_layer(t, layer, name) ==
    conv_block(t, VggOutputShape(layer), Concat(layer, name))

\* ops.WaveLetPooling(name)(x): the four sub-bands LL, LH, HL, HH of x, each
\* of half the spatial size and the same channel count
WaveLetPooling(name, t) ==
    [b \in {"LL", "LH", "HL", "HH"} |->
        Tensor(t.term \o <<name, <<b>> >>, t.ch, t.size \div 2)]

\* ops.WaveLetUnPooling(name)([x, lh, hl, hh, original]): the reconstruction,
\* of the shape of the pre-pooling tensor
WaveLetUnPooling(name, t, lh, hl, hh, original) ==
    Tensor(t.term \o lh.term \o hl.term \o hh.term \o original.term \o <<name>>,
           original.ch, original.size)

\* skips[k] with Python's list indexing; NoBundle stands for IndexError
NoBundle == <<>>

\* the 0-based position Python's list[k] reads (-1 stands for IndexError)
PyResolve(list, k) ==
    IF k >= 0 /\ k < Len(list) THEN k
    ELSE IF k < 0 /\ k >= -Len(list) THEN Len(list) + k
    ELSE -1

PyIndex(list, k) ==
    IF PyResolve(list, k) >= 0 THEN list[PyResolve(list, k) + 1] ELSE NoBundle

(***************************************************************************)
(* build_wct_model, one loop iteration per step.  A build state is the     *)
(* record of the method's locals.                                          *)
(***************************************************************************)
PoolAfter == {"block1_conv2", "block2_conv2", "block3_conv4"}

UnpoolAfter == {"block4_conv1", "block3_conv1", "block2_conv1"}

DecodeSkipStart_Up == 2 - 2

\* skip_id = 2 (line 125)
DecodeSkipStart == 2

DecodeOrder_Whole == [k \in 1..Len(VGG_LAYERS) |-> VGG_LAYERS[Len(VGG_LAYERS) + 1 - k]]

\* VGG_LAYERS[::-1][:-1]
DecodeOrder == [k \in 1..(Len(VGG_LAYERS) - 1) |-> VGG_LAYERS[Len(VGG_LAYERS) + 1 - k]]

BuildState(t, sk, id, sid, ls, rd) ==
    [x |-> t, skips |-> sk, id_ |-> id, skip_id |-> sid, layers |-> ls, reads |-> rd]

\* lines 93-95 and 112-114
BuildStart(r) ==
    LET t == copy_layer(InputImg(r), VGG_LAYERS[1], "_encode")
    IN  BuildState(t, <<>>, 0, DecodeSkipStart,
                   <<InputLayer(r),
                     LayerRec(Concat(VGG_LAYERS[1], "_encode"), "conv", InputImg(r), t, -1)>>,
                   <<>>)

\* lines 116-122: one iteration of the encoder loop
EncodeStep(st, layer) ==
    LET t == copy_layer(st.x, layer, "_encode")
        conv == LayerRec(Concat(layer, "_encode"), "conv", st.x, t, -1)
        name == Format("wave_let_pooling_", st.id_)
        sub == WaveLetPooling(name, t)
    IN  IF layer \in PoolAfter
        THEN BuildState(sub["LL"],
                        Append(st.skips, <<t, sub["LH"], sub["HL"], sub["HH"]>>),
                        st.id_ + 1, st.skip_id,
                        st.layers \o <<conv, LayerRec(name, "pool", t, sub["LL"], st.id_)>>,
                        st.reads)
        ELSE BuildState(t, st.skips, st.id_, st.skip_id, Append(st.layers, conv), st.reads)

HalfFilters_Full(filters) == filters

\* the width of the convolution before an unpooling (line 130)
HalfFilters(filters) == filters \div 2

\* lines 127-135: one iteration of the decoder loop; the bundle read must exist
DecodeStep(st, layer) ==
    LET filters == VggOutputShape(layer)
        name == Concat(layer, "_decode")
        t == conv_block(st.x, IF layer \in UnpoolAfter THEN HalfFilters(filters) ELSE filters,
                        name)
        conv == LayerRec(name, "conv", st.x, t, -1)
        b == PyIndex(st.skips, st.skip_id)
        uname == Format("wave_let_unpooling_", st.skip_id)
        u == WaveLetUnPooling(uname, t, b[2], b[3], b[4], b[1])
    IN  IF layer \in UnpoolAfter
        THEN BuildState(u, st.skips, st.id_, st.skip_id - 1,
                        st.layers \o <<conv, LayerRec(uname, "unpool", t, u,
                                                      PyResolve(st.skips, st.skip_id))>>,
                        Append(st.reads, PyResolve(st.skips, st.skip_id)))
        ELSE BuildState(t, st.skips, st.id_, st.skip_id, Append(st.layers, conv), st.reads)

\* line 137
OutputStep(st) ==
    LET t == conv_block(st.x, 3, <<"output">>)
    IN  BuildState(t, st.skips, st.id_, st.skip_id,
                   Append(st.layers, LayerRec(<<"output">>, "conv", st.x, t, -1)), st.reads)

FreezeLayer_StillTrainable(l) ==
    IF Contains(l.name, "_encode")
    THEN [l EXCEPT !.weights = VggGetWeights(Replace(l.name, "_encode"))]
    ELSE l

\* lines 143-146: the body of the loop over wct.layers
FreezeLayer(l) ==
    IF Contains(l.name, "_encode")
    THEN [l EXCEPT !.weights = VggGetWeights(Replace(l.name, "_encode")),
                   !.trainable = FALSE]
    ELSE l

(***************************************************************************)
(* init_transfer_sequence: the layer names handed to get_predict_function. *)
(***************************************************************************)
StageNames == <<"en_1", "pool_1", "pool_2", "pool_3", "de_1", "unpool_1",
                "de_2", "unpool_2", "de_3", "unpool_3", "final">>

StageLayers(s) ==
    CASE s = "en_1" -> << <<"in_img">>, <<"block1_conv1", "_encode">> >>
      [] s = "pool_1" -> << <<"block1_conv2", "_encode">>, <<"wave_let_pooling_", "0">>,
                            <<"block2_conv1", "_encode">> >>
      [] s = "pool_2" -> << <<"block2_conv2", "_encode">>, <<"wave_let_pooling_", "1">>,
                            <<"block3_conv1", "_encode">> >>
      [] s = "pool_3" -> << <<"block3_conv2", "_encode">>, <<"block3_conv3", "_encode">>,
                            <<"block3_conv4", "_encode">>,
                            <<"wave_let_pooling_", "2">>, <<"block4_conv1", "_encode">> >>
      [] s = "de_1" -> << <<"block4_conv1", "_decode">> >>
      [] s = "unpool_1" -> << <<"wave_let_unpooling_", "2">>, <<"block3_conv4", "_decode">>,
                              <<"block3_conv3", "_decode">>, <<"block3_conv2", "_decode">> >>
      [] s = "de_2" -> << <<"block3_conv1", "_decode">> >>
      [] s = "unpool_2" -> << <<"wave_let_unpooling_", "1">>, <<"block2_conv2", "_decode">> >>
      [] s = "de_3" -> << <<"block2_conv1", "_decode">> >>
      [] s = "unpool_3" -> << <<"wave_let_unpooling_", "0">>, <<"block1_conv2", "_decode">> >>
      [] s = "final" -> << <<"output">> >>

NoStages == [s \in Range(StageNames) |-> <<>>]

\* where content_feat and style_feat come from: the stage that produced the
\* feature and the stage of the style feature it was blended with ("" if none)
NoOrigin == [c |-> [from |-> "", wct |-> ""], s |-> [from |-> "", wct |-> ""]]

(***************************************************************************)
(* State before any method has run.                                        *)
(***************************************************************************)
IdleTransfer ==
    /\ content_img = <<>> /\ style_img = <<>> /\ alpha = 0
    /\ content_feat = <<>> /\ style_feat = <<>>
    /\ c_skips = <<>> /\ s_skips = <<>>
    /\ origin = NoOrigin /\ trace = <<>> /\ result = <<>>

NoDataGen == [batches |-> 0, max_size |-> 0]

\* base_dir/wct2.h5 does not exist
NoFile == <<>>

\* the layers of the graph: input, encoder convolutions, poolings, decoder
\* convolutions, unpoolings, output
NumLayers ==
    1 + Len(VGG_LAYERS) + Cardinality(PoolAfter) + Len(DecodeOrder)
      + Cardinality(UnpoolAfter) + 1

\* the position in wct.layers of the encoder convolution of VGG_LAYERS[k]
EncoderSlot(k) ==
    1 + k + Cardinality({j \in 1..(k - 1) : VGG_LAYERS[j] \in PoolAfter})

\* the position in wct.layers of the decoder convolution of DecodeOrder[k]
DecoderSlot(k) ==
    1 + Len(VGG_LAYERS) + Cardinality(PoolAfter) + k
      + Cardinality({j \in 1..(k - 1) : DecodeOrder[j] \in UnpoolAfter})

\* the wct2.h5 an earlier object of this class left in base_dir, saved after
\* `steps` training steps: the backbone weights at the encoder convolutions,
\* the trained weights at the decoder convolutions and the output layer, and
\* nothing at the input, pooling and unpooling layers
EarlierFile(steps) ==
    [n \in 1..NumLayers |->
        IF \E k \in 1..Len(VGG_LAYERS) : EncoderSlot(k) = n
        THEN VggGetWeights(<<VGG_LAYERS[CHOOSE k \in 1..Len(VGG_LAYERS) : EncoderSlot(k) = n]>>)
        ELSE IF n = NumLayers \/ \E k \in 1..Len(DecodeOrder) : DecoderSlot(k) = n
             THEN RandomInit + steps
             ELSE RandomInit]

\* __init__ sets show_interval and does not touch base_dir/wct2.h5, which is
\* absent or left there by an earlier run
IdleTrain ==
    /\ show_interval \in 1..MaxInterval /\ data_gen = NoDataGen
    /\ epochs = 0 /\ e = 0 /\ hist = <<>> /\ batch_loss = <<>> /\ history = <<>>
    /\ file \in {NoFile} \cup {EarlierFile(n) : n \in 0..MaxEarlierSteps} /\ events = <<>> /\ calls = 0

(***************************************************************************)
(* __init__: build_wct_model, then init_transfer_sequence.                 *)
(***************************************************************************)
InitBuild ==
    /\ pc = "build"
    /\ rst \in {8 * k : k \in 1..MaxRstMult}
    /\ x = NoTensor /\ skips = <<>> /\ id_ = 0 /\ skip_id = 0 /\ i = 0
    /\ layers = <<>> /\ stages = NoStages /\ reads = <<>>
    /\ IdleTransfer /\ IdleTrain

SetBuild(st) ==
    /\ x' = st.x /\ skips' = st.skips /\ id_' = st.id_
    /\ skip_id' = st.skip_id /\ layers' = st.layers /\ reads' = st.reads

Locals == BuildState(x, skips, id_, skip_id, layers, reads)

BuildBegin ==
    /\ pc = "build"
    /\ SetBuild(BuildStart(rst))
    /\ pc' = "encoder" /\ i' = 2
    /\ UNCHANGED <<rst, stages, transferVars, trainVars>>

EncoderLoop ==
    /\ pc = "encoder" /\ i <= Len(VGG_LAYERS)
    /\ SetBuild(EncodeStep(Locals, VGG_LAYERS[i]))
    /\ i' = i + 1 /\ pc' = "encoder"
    /\ UNCHANGED <<rst, stages, transferVars, trainVars>>

EncoderDone ==
    /\ pc = "encoder" /\ i > Len(VGG_LAYERS)
    /\ pc' = "decoder" /\ i' = 1
    /\ UNCHANGED <<buildVars, transferVars, trainVars>>

\* (skips[skip_id] out of range raises IndexError and the build stops there)
DecoderLoop ==
    /\ pc = "decoder" /\ i <= Len(DecodeOrder)
    /\ DecodeOrder[i] \in UnpoolAfter => PyIndex(skips, skip_id) # NoBundle
    /\ SetBuild(DecodeStep(Locals, DecodeOrder[i]))
    /\ i' = i + 1 /\ pc' = "decoder"
    /\ UNCHANGED <<rst, stages, transferVars, trainVars>>

DecoderDone ==
    /\ pc = "decoder" /\ i > Len(DecodeOrder)
    /\ SetBuild(OutputStep(Locals))
    /\ pc' = "freeze" /\ i' = 1
    /\ UNCHANGED <<rst, stages, transferVars, trainVars>>

FreezeLoop ==
    /\ pc = "freeze" /\ i <= Len(layers)
    /\ layers' = [layers EXCEPT ![i] = FreezeLayer(layers[i])]
    /\ i' = i + 1 /\ pc' = "freeze"
    /\ UNCHANGED <<rst, x, skips, id_, skip_id, stages, reads, transferVars, trainVars>>

FreezeDone ==
    /\ pc = "freeze" /\ i > Len(layers)
    /\ pc' = "sequence" /\ i' = 1
    /\ UNCHANGED <<buildVars, transferVars, trainVars>>

\* init_transfer_sequence: one assignment per step
SequenceLoop ==
    /\ pc = "sequence" /\ i <= Len(StageNames)
    /\ stages' = [stages EXCEPT ![StageNames[i]] = StageLayers(StageNames[i])]
    /\ i' = i + 1
    /\ pc' = IF i = Len(StageNames) THEN "ready" ELSE "sequence"
    /\ UNCHANGED <<rst, x, skips, id_, skip_id, layers, reads, transferVars, trainVars>>

NextBuild ==
    \/ BuildBegin \/ EncoderLoop \/ EncoderDone
    \/ DecoderLoop \/ DecoderDone
    \/ FreezeLoop \/ FreezeDone \/ SequenceLoop

SpecBuild == InitBuild /\ [][NextBuild]_vars

(***************************************************************************)
(* Properties of the built graph.                                          *)
(***************************************************************************)
LayerNames(ls) == [k \in 1..Len(ls) |-> ls[k].name]

RECURSIVE Flatten(_, _)
Flatten(st, k) ==
    IF k > Len(StageNames) THEN <<>> ELSE st[StageNames[k]] \o Flatten(st, k + 1)

Built == pc \in {"freeze", "sequence", "ready"}

\* the pooling whose sub-bands a bundle holds, read off the bundle's terms
PushedBy(bundle) == bundle[2].term[Len(bundle[2].term) - 1]

\* C1: the unpoolings read the skip bundles in strict LIFO order: the k-th
\* unpooling of the decoder (k = 0, 1, 2) reads the bundle pushed by pooling
\* 2-k, which is already pushed and not read before; once the graph is built
\* each of the three bundles has been read exactly once.
C1_SkipsLifo ==
    /\ \A k \in 1..Len(reads) :
          /\ reads[k] = 2 - (k - 1)
          /\ reads[k] >= 0 /\ reads[k] < Len(skips)
          /\ PushedBy(skips[reads[k] + 1]) = Format("wave_let_pooling_", 2 - (k - 1))
          /\ \A j \in 1..(k - 1) : reads[j] # reads[k]
    /\ Built => /\ Len(skips) = 3
                /\ Range(reads) = {0, 1, 2} /\ Len(reads) = 3

C1_Witness == pc = "ready" /\ reads = <<2, 1, 0>> /\ Len(skips) = 3

\* C2: the stages of init_transfer_sequence, concatenated in the order en_1,
\* pool_1, pool_2, pool_3, de_1, unpool_1, de_2, unpool_2, de_3, unpool_3,
\* final, give the layers of the built graph in the order they are applied,
\* each layer once.
C2_StagesPartition ==
    pc = "ready" =>
        /\ Flatten(stages, 1) = LayerNames(layers)
        /\ \A j, k \in 1..Len(layers) : layers[j].name = layers[k].name => j = k
        /\ \A k \in 1..Len(layers) :
              Cardinality({s \in Range(StageNames) : layers[k].name \in Range(stages[s])}) = 1

C2_Witness == pc = "ready" /\ Len(layers) = 25 /\ Len(Flatten(stages, 1)) = 25

\* C9: at each unpooling the decoder tensor, after its channel-halving
\* convolution, has the channel count and the spatial size of the LH, HL and HH
\* sub-bands of the bundle it reads (half the size of the bundle's pre-pooling
\* tensor); every other decoder convolution keeps its input's channel count;
\* the output has the shape (rst, rst, 3) of the input.
C9_ShapesAgree ==
    /\ \A k \in 1..Len(layers) :
          LET l == layers[k] IN
          /\ l.kind = "unpool" =>
                LET b == skips[l.skip + 1]
                    conv == layers[k - 1]
                IN  /\ \A n \in 2..4 : b[n].ch = l.in_ch /\ b[n].size = l.in_size
                    /\ 2 * l.in_size = b[1].size
                    /\ conv.kind = "conv" /\ 2 * conv.out_ch = conv.in_ch
                    /\ conv.out_ch = l.in_ch /\ conv.out_size = l.in_size
          /\ (/\ Contains(l.name, "_decode")
              /\ ~(k < Len(layers) /\ layers[k + 1].kind = "unpool"))
                => l.out_ch = l.in_ch
    /\ Built => /\ x.ch = 3 /\ x.size = rst
                /\ layers[1].in_ch = 3 /\ layers[1].in_size = rst
                /\ Cardinality({k \in 1..Len(layers) : layers[k].kind = "unpool"}) = 3

C9_Witness ==
    /\ pc = "ready" /\ rst = 16 /\ x = Tensor(x.term, 3, 16)
    /\ \E k \in 1..Len(layers) :
          layers[k].kind = "unpool" /\ layers[k].in_ch = 256 /\ layers[k].in_size = 2

(***************************************************************************)
(* The collaborators of transfer in ops.py.                                *)
(***************************************************************************)
\* self.wct.get_layer(name)
get_layer(name) == CHOOSE l \in Range(layers) : l.name = name

\* one layer of a stage applied to the stage's running feature; a pooling
\* leaves the skip list [original, lh, hl, hh], an unpooling takes one
RunLayer(name, st, skips_in) ==
    LET l == get_layer(name)
        sub == WaveLetPooling(name, st.feat)
    IN  CASE l.kind = "input" -> st
          [] l.kind = "conv" -> [st EXCEPT !.feat = conv_block(st.feat, l.out_ch, name)]
          [] l.kind = "pool" ->
                [feat |-> sub["LL"], skips |-> <<st.feat, sub["LH"], sub["HL"], sub["HH"]>>]
          [] l.kind = "unpool" ->
                [st EXCEPT !.feat = WaveLetUnPooling(name, st.feat, skips_in[2], skips_in[3],
                                                     skips_in[4], skips_in[1])]

RECURSIVE RunLayers(_, _, _, _)
RunLayers(names, k, st, skips_in) ==
    IF k > Len(names) THEN st
    ELSE RunLayers(names, k + 1, RunLayer(names[k], st, skips_in), skips_in)

\* ops.get_predict_function(self.wct, names, name)(inputs): the named layers
\* of the graph, in the order given, on the inputs
get_predict_function(names, feat, skips_in) ==
    RunLayers(names, 1, [feat |-> feat, skips |-> <<>>], skips_in)

\* ops.WhiteningAndColoring(alpha)([content, style]):
\* alpha * colored + (1 - alpha) * content, which is content when alpha = 0
WhiteningAndColoring(a, c, s) ==
    IF a = 0 THEN c ELSE Tensor(c.term \o s.term \o << <<"wct">> >>, c.ch, c.size)

(***************************************************************************)
(* transfer: its statements, in program order.  "on" is the stream whose   *)
(* feature a statement reads and writes, "from" the stream whose skip list *)
(* an unpooling stage is handed, "k" the index of the skip list.           *)
(***************************************************************************)
Stmt(op, stage, on, from, k, line) ==
    [op |-> op, stage |-> stage, on |-> on, from |-> from, k |-> k, line |-> line]

\* c = stage([c]); s = stage([s])
Stage(stage, line) ==
    <<Stmt("stage", stage, "c", "", 0, line), Stmt("stage", stage, "s", "", 0, line)>>

Pool_BlendStyle(stage, k, line) ==
    <<Stmt("pool", stage, "c", "", k, line), Stmt("pool", stage, "s", "", k, line + 1),
      Stmt("wct_skips", "", "s", "", k, line + 2)>>

\* content_feat, c_skips_k = stage([content_feat]); the same on the style side;
\* c_skips_k = [WCT(c_skips_k[i], s_skips_k[i]) for i in range(4)]
Pool(stage, k, line) ==
    <<Stmt("pool", stage, "c", "", k, line), Stmt("pool", stage, "s", "", k, line + 1),
      Stmt("wct_skips", "", "c", "", k, line + 2)>>

Unpool_StyleSkips(stage, k, line) ==
    <<Stmt("unpool", stage, "c", "s", k, line), Stmt("unpool", stage, "s", "s", k, line + 1)>>

\* content_feat = stage([content_feat] + c_skips_k); the same on the style side
Unpool(stage, k, line) ==
    <<Stmt("unpool", stage, "c", "c", k, line), Stmt("unpool", stage, "s", "s", k, line + 1)>>

\* content_feat = WhiteningAndColoring(alpha)([content_feat, style_feat])
Wct(line) == <<Stmt("wct", "", "c", "", 0, line)>>

\* lines 223-239
EncodeStatements ==
    Stage("en_1", 223) \o Wct(224)
    \o Pool("pool_1", 1, 226) \o Wct(229)
    \o Pool("pool_2", 2, 231) \o Wct(234)
    \o Pool("pool_3", 3, 236) \o Wct(239)

DecodeTail ==
    <<Stmt("stage", "final", "c", "", 0, 264), Stmt("return", "", "c", "", 0, 266)>>

DecodeStatements_Swapped ==
    Stage("de_1", 243) \o Wct(244)
    \o Unpool("unpool_1", 1, 246) \o Wct(248) \o Stage("de_2", 249)
    \o Unpool("unpool_2", 2, 252) \o Wct(254) \o Stage("de_3", 255)
    \o Unpool("unpool_3", 3, 258) \o Wct(261) \o DecodeTail

DecodeStatements_NoWct ==
    Stage("de_1", 243)
    \o Unpool("unpool_1", 3, 246) \o Wct(248) \o Stage("de_2", 249)
    \o Unpool("unpool_2", 2, 252) \o Wct(254) \o Stage("de_3", 255)
    \o Unpool("unpool_3", 1, 258) \o Wct(261) \o DecodeTail

\* lines 243-266
DecodeStatements ==
    Stage("de_1", 243) \o Wct(244)
    \o Unpool("unpool_1", 3, 246) \o Wct(248) \o Stage("de_2", 249)
    \o Unpool("unpool_2", 2, 252) \o Wct(254) \o Stage("de_3", 255)
    \o Unpool("unpool_3", 1, 258) \o Wct(261) \o DecodeTail

TransferProgram == EncodeStatements \o DecodeStatements

Images == {"1", "2"}

ContentImage(n) == << <<"content_img", n>> >>

StyleImage(n) == << <<"style_img", n>> >>

\* transfer(content_img, style_img, alpha) is called
TransferCall ==
    /\ pc = "ready"
    /\ \E c \in Images, s \in Images, a \in 0..MaxAlpha :
          /\ content_img' = Tensor(ContentImage(c), 3, rst)
          /\ style_img' = Tensor(StyleImage(s), 3, rst)
          /\ alpha' = a
    /\ content_feat' = content_img' /\ style_feat' = style_img'
    /\ c_skips' = [k \in 1..3 |-> <<>>] /\ s_skips' = [k \in 1..3 |-> <<>>]
    /\ origin' = NoOrigin /\ trace' = <<>> /\ result' = <<>>
    /\ pc' = "transfer" /\ i' = 1
    /\ UNCHANGED <<buildVars, trainVars>>

Here == TransferProgram[i]

At(op) == pc = "transfer" /\ i <= Len(TransferProgram) /\ Here.op = op

Feat(on) == IF on = "c" THEN content_feat ELSE style_feat

SkipList(from, k) == IF from = "c" THEN c_skips[k] ELSE s_skips[k]

\* what the statement at i consumed
Consumed == [stmt |-> Here, input |-> origin[Here.on], style |-> origin.s]

SetFeat(on, t) ==
    /\ content_feat' = IF on = "c" THEN t ELSE content_feat
    /\ style_feat' = IF on = "c" THEN style_feat ELSE t

Advance ==
    /\ trace' = Append(trace, Consumed)
    /\ i' = i + 1 /\ pc' = "transfer"
    /\ UNCHANGED <<buildVars, trainVars, content_img, style_img, alpha, result>>

StageStep ==
    /\ At("stage")
    /\ SetFeat(Here.on, get_predict_function(stages[Here.stage], Feat(Here.on), <<>>).feat)
    /\ origin' = [origin EXCEPT ![Here.on] = [from |-> Here.stage, wct |-> ""]]
    /\ UNCHANGED <<c_skips, s_skips>>
    /\ Advance

PoolStep ==
    /\ At("pool")
    /\ LET out == get_predict_function(stages[Here.stage], Feat(Here.on), <<>>)
       IN  /\ SetFeat(Here.on, out.feat)
           /\ c_skips' = IF Here.on = "c" THEN [c_skips EXCEPT ![Here.k] = out.skips]
                         ELSE c_skips
           /\ s_skips' = IF Here.on = "c" THEN s_skips
                         ELSE [s_skips EXCEPT ![Here.k] = out.skips]
    /\ origin' = [origin EXCEPT ![Here.on] = [from |-> Here.stage, wct |-> ""]]
    /\ Advance

WctSkipsStep ==
    /\ At("wct_skips")
    /\ LET blended == [n \in 1..4 |->
                          WhiteningAndColoring(alpha, c_skips[Here.k][n], s_skips[Here.k][n])]
       IN  /\ c_skips' = IF Here.on = "c" THEN [c_skips EXCEPT ![Here.k] = blended]
                         ELSE c_skips
           /\ s_skips' = IF Here.on = "c" THEN s_skips
                         ELSE [s_skips EXCEPT ![Here.k] = blended]
    /\ UNCHANGED <<content_feat, style_feat, origin>>
    /\ Advance

WctStep ==
    /\ At("wct")
    /\ SetFeat(Here.on, WhiteningAndColoring(alpha, content_feat, style_feat))
    /\ origin' = [origin EXCEPT ![Here.on] = [from |-> origin.c.from, wct |-> origin.s.from]]
    /\ UNCHANGED <<c_skips, s_skips>>
    /\ Advance

UnpoolStep ==
    /\ At("unpool")
    /\ SetFeat(Here.on, get_predict_function(stages[Here.stage], Feat(Here.on),
                                             SkipList(Here.from, Here.k)).feat)
    /\ origin' = [origin EXCEPT ![Here.on] = [from |-> Here.stage, wct |-> ""]]
    /\ UNCHANGED <<c_skips, s_skips>>
    /\ Advance

\* return content_feat.numpy()
ReturnStep ==
    /\ At("return")
    /\ result' = content_feat
    /\ trace' = Append(trace, Consumed)
    /\ pc' = "returned"
    /\ UNCHANGED <<i, buildVars, trainVars, content_img, style_img, alpha,
                   content_feat, style_feat, c_skips, s_skips, origin>>

NextTransfer ==
    \/ TransferCall \/ StageStep \/ PoolStep \/ WctSkipsStep \/ WctStep
    \/ UnpoolStep \/ ReturnStep

SpecTransfer == InitBuild /\ [][NextBuild \/ NextTransfer]_vars

(***************************************************************************)
(* Properties of transfer.                                                 *)
(***************************************************************************)
Runs == {n \in 1..Len(trace) : trace[n].stmt.op \in {"stage", "pool", "unpool"}}

Unpools == {n \in 1..Len(trace) : trace[n].stmt.op = "unpool"}

\* the n-th pooling and the n-th unpooling stage, counting from the deepest point
PoolFromDeepest(n) == <<"pool_3", "pool_2", "pool_1">>[n]

UnpoolFromDeepest(n) == <<"unpool_1", "unpool_2", "unpool_3">>[n]

\* the pooling statement that wrote the skip list an unpooling statement is handed
WroteSkips(u) ==
    {m \in 1..(u - 1) : /\ trace[m].stmt.op = "pool"
                        /\ trace[m].stmt.on = trace[u].stmt.from
                        /\ trace[m].stmt.k = trace[u].stmt.k}

\* C3: on the content and on the style stream, the n-th unpooling stage from
\* the deepest point is handed the skips of the n-th pooling stage from the
\* deepest point, of its own stream; the stage holding wave_let_unpooling_k is
\* handed the skips of the stage holding wave_let_pooling_k; each skip list is
\* consumed by exactly one unpooling stage.
C3_DepthSymmetricPairing ==
    /\ \A u \in Unpools :
          /\ trace[u].stmt.from = trace[u].stmt.on
          /\ \E m \in WroteSkips(u), n \in 1..3 :
                /\ trace[u].stmt.stage = UnpoolFromDeepest(n)
                /\ trace[m].stmt.stage = PoolFromDeepest(n)
                /\ \E k \in 0..2 :
                      /\ Format("wave_let_unpooling_", k) \in Range(stages[trace[u].stmt.stage])
                      /\ Format("wave_let_pooling_", k) \in Range(stages[trace[m].stmt.stage])
                      /\ get_layer(Format("wave_let_unpooling_", k)).skip =
                            get_layer(Format("wave_let_pooling_", k)).skip
          /\ \A v \in Unpools :
                (trace[v].stmt.from = trace[u].stmt.from /\ trace[v].stmt.k = trace[u].stmt.k)
                    => v = u
    /\ pc = "returned" =>
          \A on \in {"c", "s"}, k \in 1..3 :
              \E u \in Unpools : trace[u].stmt.from = on /\ trace[u].stmt.k = k

C3_Witness ==
    /\ pc = "returned" /\ Cardinality(Unpools) = 6
    /\ \E u \in Unpools : trace[u].stmt.stage = "unpool_1" /\ trace[u].stmt.k = 3

StageBefore(stage) ==
    StageNames[(CHOOSE k \in 2..Len(StageNames) : StageNames[k] = stage) - 1]

\* the content-side runs of the stages after en_1
ContentRuns == {n \in Runs : trace[n].stmt.on = "c" /\ trace[n].stmt.stage # "en_1"}

\* C4 as stated: every stage after en_1 is fed, on the content stream, the
\* output of the stage before it blended by WCT with the style-stream output of
\* that same stage.
C4_WctBetweenEveryStage ==
    \A n \in ContentRuns :
        /\ trace[n].input.from = StageBefore(trace[n].stmt.stage)
        /\ trace[n].input.wct = StageBefore(trace[n].stmt.stage)

\* C4, amended: every stage after en_1 is fed, on the content stream, the
\* output of the stage before it; that output is blended by WCT with the style
\* output of that same stage, except the outputs of de_2 and de_3, which are
\* fed to unpool_2 and unpool_3 unblended.
C4_WctBetweenStagesButDecoder ==
    \A n \in ContentRuns :
        /\ trace[n].input.from = StageBefore(trace[n].stmt.stage)
        /\ trace[n].input.wct =
              IF StageBefore(trace[n].stmt.stage) \in {"de_2", "de_3"} THEN ""
              ELSE StageBefore(trace[n].stmt.stage)

C4_Witness ==
    /\ pc = "returned" /\ alpha > 0
    /\ \E n \in ContentRuns : trace[n].stmt.stage = "unpool_2" /\ trace[n].input.wct = ""
    /\ \E n \in ContentRuns : trace[n].stmt.stage = "unpool_1" /\ trace[n].input.wct = "de_1"

\* self.wct(img): the graph's output tensor with the input replaced by img
Predict(img) ==
    Tensor([k \in 1..Len(x.term) |->
               IF x.term[k] = <<"in_img">> THEN img.term[1] ELSE x.term[k]],
           x.ch, x.size)

\* C5: with alpha = 0 (WCT returns its content input) transfer returns what
\* the whole graph gives on the content image alone, whatever the style image.
C5_AlphaZeroIsAutoencoder ==
    (pc = "returned" /\ alpha = 0) => result = Predict(content_img)

C5_Witness ==
    /\ pc = "returned" /\ alpha = 0 /\ Len(result.term) > 25
    /\ result.ch = 3 /\ result.size = rst
    /\ content_img.term[1][2] = "1" /\ style_img.term[1][2] = "2"

\* a term built from the style image and the layers alone
StyleOnly(t) ==
    \A k \in 1..Len(t.term) : t.term[k] # <<"wct">> /\ t.term[k][1] # "content_img"

\* C10: the style-side features and skips are built from the style image and
\* the layers alone; every WCT writes a content-side variable; the unpooling
\* stages of the style stream are handed the style-side skips.
C10_StyleStreamIndependent ==
    /\ pc \in {"transfer", "returned"} =>
          /\ StyleOnly(style_feat)
          /\ \A k \in 1..3 : \A n \in 1..Len(s_skips[k]) : StyleOnly(s_skips[k][n])
    /\ \A n \in 1..Len(trace) :
          /\ trace[n].stmt.op \in {"wct", "wct_skips"} => trace[n].stmt.on = "c"
          /\ trace[n].stmt.on = "s" =>
                /\ trace[n].input.wct = ""
                /\ trace[n].stmt.op = "unpool" => trace[n].stmt.from = "s"

C10_Witness ==
    /\ pc = "returned" /\ alpha > 0
    /\ Format("wave_let_unpooling_", 0) \in Range(style_feat.term)
    /\ <<"wct">> \in Range(content_feat.term)
    /\ \A k \in 1..3 : Len(s_skips[k]) = 4 /\ <<"wct">> \in Range(c_skips[k][2].term)

(***************************************************************************)
(* Weight persistence and train.                                           *)
(***************************************************************************)
\* the weights of every layer, as wct.save_weights writes them
GetWeights == [k \in 1..Len(layers) |-> layers[k].weights]

RECURSIVE SetWeights(_, _, _)
SetWeights(ls, w, k) ==
    IF k > Len(ls) THEN ls ELSE SetWeights([ls EXCEPT ![k].weights = w[k]], w, k + 1)

save_weight_Uncaught(ok) == [file |-> IF ok THEN GetWeights ELSE file, raised |-> ~ok]

\* save_weight (lines 206-210): the file after the call (ok: save_weights did
\* not raise) and whether the call raises
save_weight(ok) == [file |-> IF ok THEN GetWeights ELSE file, raised |-> FALSE]

\* load_weight (lines 213-217): the layers after the call and whether it raises
load_weight(ok) ==
    [layers |-> IF ok THEN SetWeights(layers, file, 1) ELSE layers, raised |-> FALSE]

\* the optimizer step of trainer.train_on_batch on one layer
TrainLayer(l) ==
    IF l.trainable /\ l.kind = "conv" THEN [l EXCEPT !.weights = @ + 1] ELSE l

RECURSIVE TrainFrom(_, _)
TrainFrom(ls, k) ==
    IF k > Len(ls) THEN ls ELSE TrainFrom([ls EXCEPT ![k] = TrainLayer(ls[k])], k + 1)

Event(op, ok) == [op |-> op, e |-> e, ok |-> ok]

\* e % self.show_interval == 0 (line 186)
ShowEpoch(n) == n % show_interval = 0

\* np.random.randint(0, data_gen.max_size - 1) raises ValueError unless 0 < high
RandintRaises(high) == high <= 0

Untouched == <<rst, x, skips, id_, skip_id, stages, reads, transferVars, show_interval>>

\* load_weight() is called
LoadCall ==
    /\ pc = "ready" /\ calls < MaxCalls
    /\ \E ok \in BOOLEAN :
          /\ ok => file # NoFile
          /\ layers' = load_weight(ok).layers
          /\ pc' = IF load_weight(ok).raised THEN "raised" ELSE "ready"
          /\ events' = <<[op |-> "load", e |-> 0, ok |-> ok]>>
    /\ calls' = calls + 1
    /\ UNCHANGED <<Untouched, i, data_gen, epochs, e, hist, batch_loss, history, file>>

\* save_weight() is called
SaveCall ==
    /\ pc = "ready" /\ calls < MaxCalls
    /\ \E ok \in BOOLEAN :
          /\ file' = save_weight(ok).file
          /\ pc' = IF save_weight(ok).raised THEN "raised" ELSE "ready"
          /\ events' = <<[op |-> "save", e |-> 0, ok |-> ok]>>
    /\ calls' = calls + 1
    /\ UNCHANGED <<Untouched, i, layers, data_gen, epochs, e, hist, batch_loss, history>>

\* train(data_gen, epochs) is called (lines 160-161)
TrainCall ==
    /\ pc = "ready" /\ calls < MaxCalls
    /\ epochs' \in 0..MaxEpochs
    /\ \E m \in 1..MaxSamples, b \in 1..MaxBatches :
          b <= m /\ data_gen' = [batches |-> b, max_size |-> m]
    /\ hist' = <<>> /\ batch_loss' = <<>> /\ e' = 0 /\ events' = <<>>
    /\ calls' = calls + 1 /\ pc' = "epoch"
    /\ UNCHANGED <<Untouched, i, layers, history, file>>

\* for e in range(epochs): batch_loss = self.init_hist() (lines 163-167)
EpochBegin ==
    /\ pc = "epoch" /\ e < epochs
    /\ batch_loss' = <<>> /\ i' = 1 /\ pc' = "batch"
    /\ UNCHANGED <<Untouched, layers, data_gen, epochs, e, hist, history, file, events, calls>>

\* lines 168-170
BatchStep ==
    /\ pc = "batch" /\ i <= data_gen.batches
    /\ layers' = TrainFrom(layers, 1)
    /\ batch_loss' = Append(batch_loss, [epoch |-> e, batch |-> i])
    /\ events' = Append(events, Event("batch", TRUE))
    /\ i' = i + 1 /\ pc' = "batch"
    /\ UNCHANGED <<Untouched, data_gen, epochs, e, hist, history, file, calls>>

\* lines 175-186
EpochEnd ==
    /\ pc = "batch" /\ i > data_gen.batches
    /\ hist' = Append(hist, [epoch |-> e, batches |-> Len(batch_loss)])
    /\ IF ShowEpoch(e) THEN pc' = "save" /\ e' = e
                       ELSE pc' = "epoch" /\ e' = e + 1
    /\ UNCHANGED <<Untouched, i, layers, data_gen, epochs, batch_loss, history, file,
                   events, calls>>

\* line 187
SaveStep ==
    /\ pc = "save"
    /\ \E ok \in BOOLEAN :
          /\ file' = save_weight(ok).file
          /\ pc' = IF save_weight(ok).raised THEN "raised" ELSE "sample"
          /\ events' = Append(events, Event("save", ok))
    /\ UNCHANGED <<Untouched, i, layers, data_gen, epochs, e, hist, batch_loss, history, calls>>

\* lines 188-191
SampleStep ==
    /\ pc = "sample" /\ ~RandintRaises(data_gen.max_size - 1)
    /\ events' = Append(events, Event("sample", TRUE))
    /\ e' = e + 1 /\ pc' = "epoch"
    /\ UNCHANGED <<Untouched, i, layers, data_gen, epochs, hist, batch_loss, history, file,
                   calls>>

\* line 188 raises ValueError: train ends there
SampleRaises ==
    /\ pc = "sample" /\ RandintRaises(data_gen.max_size - 1)
    /\ pc' = "raised"
    /\ UNCHANGED <<Untouched, i, layers, data_gen, epochs, e, hist, batch_loss, history,
                   file, events, calls>>

\* line 193
TrainReturn ==
    /\ pc = "epoch" /\ e >= epochs
    /\ history' = hist
    /\ hist' = <<>> /\ batch_loss' = <<>> /\ pc' = "ready"
    /\ UNCHANGED <<Untouched, i, layers, data_gen, epochs, e, file, events, calls>>

NextTrain ==
    \/ LoadCall \/ SaveCall \/ TrainCall \/ EpochBegin \/ BatchStep \/ EpochEnd
    \/ SaveStep \/ SampleStep \/ SampleRaises \/ TrainReturn

InitTrain == InitBuild /\ rst = 8

SpecTrain == InitTrain /\ [][NextBuild \/ NextTrain]_vars

(***************************************************************************)
(* Properties of training and persistence.                                 *)
(***************************************************************************)
AfterBuild == pc \notin {"build", "encoder", "decoder", "freeze"}

EncoderConvs == {k \in 1..Len(layers) : Contains(layers[k].name, "_encode")}

DecoderConvs ==
    {k \in 1..Len(layers) : Contains(layers[k].name, "_decode") \/ layers[k].name = <<"output">>}

\* C6: once the graph is built, and through every sequence of training steps
\* (and of saves and loads of the weight file between them),
\* each encoder convolution is non-trainable and holds the weights of the
\* backbone layer of the same name without the _encode suffix; each decoder
\* convolution and the output layer are trainable.
C6_EncoderFrozen ==
    AfterBuild =>
        /\ \A k \in EncoderConvs :
              /\ ~layers[k].trainable
              /\ layers[k].name[1] \in Range(VGG_LAYERS)
              /\ layers[k].weights = VggGetWeights(<<layers[k].name[1]>>)
        /\ \A k \in DecoderConvs : layers[k].trainable

C6_Witness ==
    /\ pc = "ready" /\ history # <<>>
    /\ events # <<>> /\ events[1].op = "load" /\ events[1].ok
    /\ Cardinality(EncoderConvs) = 9 /\ Cardinality(DecoderConvs) = 9
    /\ \A k \in DecoderConvs : layers[k].weights > RandomInit
    /\ \A k \in EncoderConvs : layers[k].weights > 100

Last(q) == q[Len(q)]

\* the last persistence call failed
Failed == events # <<>> /\ Last(events).op \in {"load", "save"} /\ ~Last(events).ok

\* a step that runs load_weight or save_weight
Persists == pc = "save" \/ (pc = "ready" /\ calls' # calls /\ pc' # "epoch")

\* C7: a load_weight or save_weight that fails returns normally and leaves the
\* in-memory weights and the file as they were: at the top level the object is
\* ready for the next call, inside train the epoch goes on with its sample.
C7_PersistenceFailureNonFatal ==
    [][(Persists /\ Failed') =>
          /\ layers' = layers /\ file' = file
          /\ pc' = IF pc = "save" THEN "sample" ELSE "ready"]_vars

C7_Witness ==
    /\ pc = "ready" /\ epochs >= 2 /\ Len(history) = epochs
    /\ \E n \in 1..Len(events) : events[n].op = "save" /\ ~events[n].ok
    /\ \E n \in 1..Len(events) : events[n].op = "batch" /\ events[n].e = epochs - 1
    /\ file = NoFile


\* the events are those of a train call
TrainEvents == events = <<>> \/ events[1].op = "batch"

\* the epochs whose body has run to its end, or to the exception that ended train
EpochsRun == IF pc = "raised" THEN 0..e ELSE 0..(e - 1)

EventsOf(op, k) == {n \in 1..Len(events) : events[n].op = op /\ events[n].e = k}

\* C8: train saves the weights and shows a sample exactly in the epochs e with
\* e % show_interval = 0, once each, after all batches of the epoch and the
\* save right before the sample; when train has returned the loss history
\* holds one entry per epoch, in epoch order.
C8_SaveAndSampleEveryInterval ==
    (AfterBuild /\ TrainEvents) =>
        /\ \A k \in EpochsRun :
              IF k % show_interval = 0
              THEN /\ Cardinality(EventsOf("save", k)) = 1
                   /\ Cardinality(EventsOf("sample", k)) = 1
                   /\ \A n \in EventsOf("save", k) :
                         /\ n + 1 \in EventsOf("sample", k)
                         /\ {m \in EventsOf("batch", k) : m < n} = EventsOf("batch", k)
                         /\ Cardinality(EventsOf("batch", k)) = data_gen.batches
              ELSE EventsOf("save", k) = {} /\ EventsOf("sample", k) = {}
        /\ (pc = "ready" /\ calls > 0) =>
              /\ Len(history) = epochs
              /\ \A k \in 1..Len(history) : history[k].epoch = k - 1

\* C8 with a data generator of at least two samples
C8_WithTwoSamples == data_gen.max_size # 1 => C8_SaveAndSampleEveryInterval

====
